---------------------------- MODULE Spec2Model ----------------------------
(***************************************************************************)
(* Model of the local multi-file glTF viewer (HomeView.vue, reproduced in  *)
(* src/README.md): the path normalizer, the asset index, the resource      *)
(* resolver, the blob-URL lifecycle and the load callbacks.                *)
(*                                                                         *)
(* Strings are sequences of one-character strings, so that decoding,       *)
(* prefix stripping, splitting and lower-casing are computed, not assumed. *)
(***************************************************************************)
EXTENDS Integers, Sequences, FiniteSets, TLC

(***************************************************************************)
(* A string-valued function that throws yields THROWN, a one-element       *)
(* sequence whose element is no character. A file-valued function yields a *)
(* file id (1, 2, ...), NoFile for null, or FileThrown when it throws.     *)
(***************************************************************************)
THROWN == << "<thrown>" >>
NoFile == 0
FileThrown == -1

(***************************************************************************)
(* Characters.                                                             *)
(***************************************************************************)
\* Printable ASCII, code 32 (space) to 126 (~): Ascii[code - 31]. The grave
\* accent (code 96) is written as a token.
Ascii ==
  << " ", "!", "\"", "#", "$", "%", "&", "'", "(", ")", "*", "+", ",", "-", ".", "/",
     "0", "1", "2", "3", "4", "5", "6", "7", "8", "9", ":", ";", "<", "=", ">", "?",
     "@", "A", "B", "C", "D", "E", "F", "G", "H", "I", "J", "K", "L", "M", "N", "O",
     "P", "Q", "R", "S", "T", "U", "V", "W", "X", "Y", "Z", "[", "\\", "]", "^", "_",
     "<grave>", "a", "b", "c", "d", "e", "f", "g", "h", "i", "j", "k", "l", "m", "n", "o",
     "p", "q", "r", "s", "t", "u", "v", "w", "x", "y", "z", "{", "|", "}", "~" >>

\* A character outside printable ASCII (a control character or a decoded
\* multi-byte UTF-8 sequence); all of them are written with this one token.
NonAscii == "<U+>"

CharOfCode(code) ==
  IF code >= 32 /\ code <= 126 THEN Ascii[code - 31] ELSE NonAscii

UpperLetters == { Ascii[i] : i \in 34..59 }

\* String.prototype.toLowerCase on one character.
LowerChar(c) ==
  IF c \in UpperLetters
    THEN Ascii[(CHOOSE i \in 34..59 : Ascii[i] = c) + 32]
    ELSE c

ToLowerCase(s) == << >> \o [i \in 1..Len(s) |-> LowerChar(s[i])]

HexDigits ==
  { "0", "1", "2", "3", "4", "5", "6", "7", "8", "9",
    "a", "b", "c", "d", "e", "f", "A", "B", "C", "D", "E", "F" }

HexVal(c) ==
  CASE c \in { Ascii[i] : i \in 17..26 } -> (CHOOSE i \in 17..26 : Ascii[i] = c) - 17
    [] c \in { Ascii[i] : i \in 34..39 } -> (CHOOSE i \in 34..39 : Ascii[i] = c) - 24
    [] c \in { Ascii[i] : i \in 66..71 } -> (CHOOSE i \in 66..71 : Ascii[i] = c) - 56

(***************************************************************************)
(* Sequence helpers.                                                       *)
(***************************************************************************)
Drop(s, n) == IF n >= Len(s) THEN << >> ELSE SubSeq(s, n + 1, Len(s))

Take(s, n) == IF n >= Len(s) THEN s ELSE SubSeq(s, 1, n)

StartsWith(s, p) == Len(s) >= Len(p) /\ SubSeq(s, 1, Len(p)) = p

\* String.prototype.endsWith
EndsWith(s, p) == Len(s) >= Len(p) /\ SubSeq(s, Len(s) - Len(p) + 1, Len(s)) = p

\* Index of the first element of s that lies in cs, or 0.
FirstIn(s, cs) ==
  IF \E i \in 1..Len(s) : s[i] \in cs
    THEN CHOOSE i \in 1..Len(s) : s[i] \in cs /\ \A j \in 1..(i - 1) : s[j] \notin cs
    ELSE 0

\* Index of the last element of s that lies in cs, or 0.
LastIn(s, cs) ==
  IF \E i \in 1..Len(s) : s[i] \in cs
    THEN CHOOSE i \in 1..Len(s) : s[i] \in cs /\ \A j \in (i + 1)..Len(s) : s[j] \notin cs
    ELSE 0

(***************************************************************************)
(* decodeURIComponent: %XX escapes are decoded as UTF-8; a % that is not   *)
(* followed by two hex digits, or bytes that are not well-formed UTF-8,    *)
(* throw a URIError.                                                       *)
(***************************************************************************)
IsEscapeAt(s, i) ==
  /\ i + 2 <= Len(s)
  /\ s[i] = "%"
  /\ s[i + 1] \in HexDigits
  /\ s[i + 2] \in HexDigits

ByteAt(s, i) == 16 * HexVal(s[i + 1]) + HexVal(s[i + 2])

\* Number of continuation bytes the lead byte b announces, or -1.
Continuations(b) ==
  CASE b >= 194 /\ b <= 223 -> 1
    [] b >= 224 /\ b <= 239 -> 2
    [] b >= 240 /\ b <= 244 -> 3
    [] OTHER -> -1

\* The escapes at i+3, i+6, ... are n continuation bytes of lead byte b.
ContinuationsOk(s, i, b, n) ==
  /\ \A k \in 1..n :
       /\ IsEscapeAt(s, i + 3 * k)
       /\ ByteAt(s, i + 3 * k) >= 128
       /\ ByteAt(s, i + 3 * k) <= 191
  /\ (b = 224 => ByteAt(s, i + 3) >= 160)
  /\ (b = 237 => ByteAt(s, i + 3) <= 159)
  /\ (b = 240 => ByteAt(s, i + 3) >= 144)
  /\ (b = 244 => ByteAt(s, i + 3) <= 143)

RECURSIVE DecodeFrom(_, _)
DecodeFrom(s, i) ==
  IF i > Len(s) THEN << >>
  ELSE IF s[i] # "%" THEN
    LET rest == DecodeFrom(s, i + 1)
    IN  IF rest = THROWN THEN THROWN ELSE << s[i] >> \o rest
  ELSE IF ~IsEscapeAt(s, i) THEN THROWN
  ELSE
    LET b == ByteAt(s, i)
    IN  IF b < 128 THEN
          LET rest == DecodeFrom(s, i + 3)
          IN  IF rest = THROWN THEN THROWN ELSE << CharOfCode(b) >> \o rest
        ELSE
          LET n == Continuations(b)
          IN  IF n < 0 \/ ~ContinuationsOk(s, i, b, n) THEN THROWN
              ELSE
                LET rest == DecodeFrom(s, i + 3 * (n + 1))
                IN  IF rest = THROWN THEN THROWN ELSE << NonAscii >> \o rest

decodeURIComponent(s) == DecodeFrom(s, 1)

(***************************************************************************)
(* normalizeAssetPath (README.md 295-304).                                 *)
(***************************************************************************)
\* .replace(/^blob:[^/]+\//, '')
StripBlobOrigin(s) ==
  LET rest == Drop(s, 5)
      slash == FirstIn(rest, {"/"})
  IN  IF StartsWith(s, <<"b", "l", "o", "b", ":">>) /\ slash >= 2
        THEN Drop(rest, slash)
        ELSE s

\* .replace(/^\.?\//, '')
StripDotSlash(s) ==
  IF StartsWith(s, <<".", "/">>) THEN Drop(s, 2)
  ELSE IF StartsWith(s, <<"/">>) THEN Drop(s, 1)
  ELSE s

\* .replace(/^\//, '')
StripSlash(s) == IF StartsWith(s, <<"/">>) THEN Drop(s, 1) ELSE s

\* .replace(/\\/g, '/')
BackslashesToSlashes(s) ==
  << >> \o [i \in 1..Len(s) |-> IF s[i] = "\\" THEN "/" ELSE s[i]]

\* .split(/[?#]/)[0]
BeforeQueryOrHash(s) ==
  LET cut == FirstIn(s, {"?", "#"})
  IN  IF cut = 0 THEN s ELSE Take(s, cut - 1)

\* The chain of replace and split calls on the decoded string; a throw of
\* decodeURIComponent passes through.
StripAndSplit(decoded) ==
  IF decoded = THROWN THEN THROWN
  ELSE BeforeQueryOrHash(
         BackslashesToSlashes(StripSlash(StripDotSlash(StripBlobOrigin(decoded)))))

normalizeAssetPath(path) == StripAndSplit(decodeURIComponent(path))

\* normalized.split('/').pop()
Basename(s) == Drop(s, LastIn(s, {"/"}))

(***************************************************************************)
(* new URL(url, window.location.href).pathname (README.md 333): the        *)
(* browser's URL parser, for a page served at http://<host>/. It throws    *)
(* (a TypeError) when the reference names an empty host.                   *)
(***************************************************************************)
Letters == { Ascii[i] : i \in 34..59 } \cup { Ascii[i] : i \in 66..91 }

SchemeChars == Letters \cup { Ascii[i] : i \in 17..26 } \cup {"+", "-", "."}

SlashLike == {"/", "\\"}

SpecialSchemes ==
  { <<"h", "t", "t", "p">>, <<"h", "t", "t", "p", "s">>, <<"f", "t", "p">>,
    <<"w", "s">>, <<"w", "s", "s">>, <<"f", "i", "l", "e">> }

\* The directory of the page's own path.
BaseDir == << "/" >>

\* Index of the ':' ending a leading scheme, or 0.
SchemeEnd(u) ==
  LET colon == FirstIn(u, {":"})
  IN  IF colon >= 2 /\ u[1] \in Letters /\ \A i \in 1..(colon - 1) : u[i] \in SchemeChars
        THEN colon
        ELSE 0

RECURSIVE SplitOn(_, _)
\* The segments of s between separators from seps.
SplitOn(s, seps) ==
  LET cut == FirstIn(s, seps)
  IN  IF cut = 0 THEN << s >>
      ELSE << Take(s, cut - 1) >> \o SplitOn(Drop(s, cut), seps)

IsSingleDot(seg) ==
  ToLowerCase(seg) \in { <<".">>, <<"%", "2", "e">> }

IsDoubleDot(seg) ==
  ToLowerCase(seg) \in
    { <<".", ".">>, <<".", "%", "2", "e">>, <<"%", "2", "e", ".">>,
      <<"%", "2", "e", "%", "2", "e">> }

RECURSIVE RemoveDotSegments(_, _, _)
RemoveDotSegments(segs, i, out) ==
  IF i > Len(segs) THEN out
  ELSE IF IsDoubleDot(segs[i]) THEN
    LET popped == IF out = << >> THEN out ELSE SubSeq(out, 1, Len(out) - 1)
    IN  RemoveDotSegments(segs, i + 1, IF i = Len(segs) THEN Append(popped, << >>) ELSE popped)
  ELSE IF IsSingleDot(segs[i]) THEN
    RemoveDotSegments(segs, i + 1, IF i = Len(segs) THEN Append(out, << >>) ELSE out)
  ELSE RemoveDotSegments(segs, i + 1, Append(out, segs[i]))

\* The path percent-encode set, as far as printable ASCII goes.
PathEncodeChar(c) ==
  CASE c = " " -> <<"%", "2", "0">>
    [] c = "\"" -> <<"%", "2", "2">>
    [] c = "<" -> <<"%", "3", "C">>
    [] c = ">" -> <<"%", "3", "E">>
    [] c = "<grave>" -> <<"%", "6", "0">>
    [] c = "{" -> <<"%", "7", "B">>
    [] c = "}" -> <<"%", "7", "D">>
    [] OTHER -> << c >>

RECURSIVE PathEncode(_)
PathEncode(s) == IF s = << >> THEN << >> ELSE PathEncodeChar(s[1]) \o PathEncode(Drop(s, 1))

RECURSIVE JoinSegments(_)
JoinSegments(segs) ==
  IF segs = << >> THEN << >>
  ELSE << "/" >> \o PathEncode(segs[1]) \o JoinSegments(Drop(segs, 1))

\* The pathname of a path that starts with a slash (or is empty).
PathnameOf(path, seps) ==
  LET segs == IF path = << >> THEN << >> ELSE RemoveDotSegments(SplitOn(Drop(path, 1), seps), 1, << >>)
  IN  IF segs = << >> THEN << "/" >> ELSE JoinSegments(segs)

\* After a scheme's or a reference's leading slashes: host, then path.
AuthorityPathname(s, seps) ==
  LET lead == FirstIn(s, { s[i] : i \in 1..Len(s) } \ seps)
      hostAndPath == IF lead = 0 THEN << >> ELSE Drop(s, lead - 1)
      hostEnd == FirstIn(hostAndPath, seps)
  IN  IF hostAndPath = << >> THEN THROWN
      ELSE IF hostEnd = 0 THEN << "/" >>
      ELSE PathnameOf(Drop(hostAndPath, hostEnd - 1), seps)

UrlPathname(url) ==
  LET colon == SchemeEnd(url)
      scheme == ToLowerCase(Take(url, colon - 1))
      afterScheme == BeforeQueryOrHash(Drop(url, colon))
      ref == BeforeQueryOrHash(url)
  IN  IF colon > 0 /\ scheme \in SpecialSchemes THEN
        IF afterScheme # << >> /\ afterScheme[1] \in SlashLike
          THEN AuthorityPathname(afterScheme, SlashLike)
        ELSE IF scheme = <<"h", "t", "t", "p">>
          THEN PathnameOf(BaseDir \o afterScheme, SlashLike)
        ELSE AuthorityPathname(afterScheme, SlashLike)
      ELSE IF colon > 0 THEN
        IF StartsWith(afterScheme, <<"/", "/">>)
          THEN LET rest == Drop(afterScheme, 2)
                   hostEnd == FirstIn(rest, {"/"})
               IN  IF hostEnd = 0 THEN << >> ELSE PathnameOf(Drop(rest, hostEnd - 1), {"/"})
        ELSE IF StartsWith(afterScheme, <<"/">>) THEN PathnameOf(afterScheme, {"/"})
        ELSE afterScheme
      ELSE IF Len(ref) >= 2 /\ ref[1] \in SlashLike /\ ref[2] \in SlashLike
        THEN AuthorityPathname(ref, SlashLike)
      ELSE IF ref # << >> /\ ref[1] \in SlashLike THEN PathnameOf(ref, SlashLike)
      ELSE PathnameOf(BaseDir \o ref, SlashLike)

(***************************************************************************)
(* The asset index: a Map from key strings to files (file ids).            *)
(***************************************************************************)
EmptyMap == << >>

\* Map.prototype.get, with undefined written NoFile.
MapGet(map, key) == IF key \in DOMAIN map THEN map[key] ELSE NoFile

\* Map.prototype.set
MapSet(map, key, file) ==
  (key :> file) @@ map

RECURSIVE MapSetAll(_, _, _)
MapSetAll(map, keys, file) ==
  IF keys = << >> THEN map
  ELSE MapSetAll(MapSet(map, keys[1], file), Drop(keys, 1), file)

\* Set.prototype.add on a Set kept in insertion order.
RECURSIVE AddAll(_, _)
AddAll(keys, more) ==
  IF more = << >> THEN keys
  ELSE AddAll(IF \E i \in 1..Len(keys) : keys[i] = more[1] THEN keys ELSE Append(keys, more[1]),
              Drop(more, 1))

\* addKey without the lower-case variants.
addKeyCaseSensitive(normalized) ==
  LET basename == Basename(normalized)
  IN  IF normalized = << >> THEN << >>
      ELSE << normalized >> \o (IF basename # << >> THEN << basename >> ELSE << >>)

\* The keys addKey puts into the Set for a normalized value (README.md 316-327).
addKey(normalized) ==
  LET basename == Basename(normalized)
  IN  IF normalized = << >> THEN << >>
      ELSE << normalized, ToLowerCase(normalized) >>
           \o (IF basename # << >> THEN << basename, ToLowerCase(basename) >> ELSE << >>)

\* The Set of keys after addKey(url) and addKey(parsed.pathname), in order,
\* given the two normalized values; threw when addKey(url) throws. A throw
\* inside the try block is caught and adds nothing.
KeySet(direct, parsed) ==
  IF direct = THROWN THEN [threw |-> TRUE, keys |-> << >>]
  ELSE [threw |-> FALSE,
        keys |-> AddAll(AddAll(<< >>, addKey(direct)),
                        IF parsed = THROWN THEN << >> ELSE addKey(parsed))]

\* normalizeAssetPath(parsed.pathname), or THROWN when new URL throws.
NormalizedPathname(pathname) ==
  IF pathname = THROWN THEN THROWN ELSE normalizeAssetPath(pathname)

\* The keys findAssetFileByUrl probes for url.
CandidateKeys(url) ==
  KeySet(normalizeAssetPath(url), NormalizedPathname(UrlPathname(url)))

RECURSIVE FirstHit(_, _)
FirstHit(keys, map) ==
  IF keys = << >> THEN NoFile
  ELSE IF MapGet(map, keys[1]) # NoFile THEN MapGet(map, keys[1])
  ELSE FirstHit(Drop(keys, 1), map)

\* for (const key of keys) ... return file; return null
Probe(keys, map) == IF keys.threw THEN FileThrown ELSE FirstHit(keys.keys, map)

findAssetFileByUrl(url, map) == Probe(CandidateKeys(url), map)

\* The keys buildAssetMap sets for one file, in order, given its normalized
\* name and relative path; threw when normalizeAssetPath throws on either.
KeysFor(name, relativePath) ==
  IF name = THROWN \/ relativePath = THROWN THEN [threw |-> TRUE, keys |-> << >>]
  ELSE [threw |-> FALSE,
        keys |-> << name, ToLowerCase(name) >>
                 \o (IF relativePath # << >>
                       THEN << relativePath, ToLowerCase(relativePath) >>
                            \o (IF Basename(relativePath) # << >>
                                  THEN << Basename(relativePath),
                                          ToLowerCase(Basename(relativePath)) >>
                                  ELSE << >>)
                       ELSE << >>)]

FileKeys(file) ==
  KeysFor(normalizeAssetPath(file.name), normalizeAssetPath(file.webkitRelativePath))

RECURSIVE BuildFrom(_, _, _)
\* One round of the loop over files, for the keys of files[i].
SetKeys(files, i, map, keys) ==
  IF keys.threw THEN [threw |-> TRUE, map |-> EmptyMap]
  ELSE BuildFrom(files, i + 1, MapSetAll(map, keys.keys, files[i].id))

BuildFrom(files, i, map) ==
  IF i > Len(files) THEN [threw |-> FALSE, map |-> map]
  ELSE SetKeys(files, i, map, FileKeys(files[i]))

\* buildAssetMap(files): the new Map, or threw when normalizeAssetPath throws.
buildAssetMap(files) == BuildFrom(files, 1, EmptyMap)

\* /^data:/i.test(url)
IsDataUrl(url) == StartsWith(ToLowerCase(url), <<"d", "a", "t", "a", ":">>)

\* files.find that takes any file with an extension of three or more letters.
MainFileIndexAnyFile(files) ==
  IF \E i \in 1..Len(files) : Len(files[i].name) > 4 THEN 1 ELSE 0

\* files.find(...): index of the first .glb/.gltf file, or 0.
MainFileIndex(files) ==
  LET IsModel(f) ==
        \/ EndsWith(ToLowerCase(f.name), <<".", "g", "l", "b">>)
        \/ EndsWith(ToLowerCase(f.name), <<".", "g", "l", "t", "f">>)
  IN  IF \E i \in 1..Len(files) : IsModel(files[i])
        THEN CHOOSE i \in 1..Len(files) :
               IsModel(files[i]) /\ \A j \in 1..(i - 1) : ~IsModel(files[j])
        ELSE 0

(***************************************************************************)
(* The viewer session.                                                     *)
(***************************************************************************)
\* Load cycles started per behaviour, and sub-resource requests issued.
MaxLoads == 2
MaxRequests == 1

\* The files a user can drop.
GltfFile == [id |-> 1, name |-> <<"a", ".", "g", "l", "t", "f">>, webkitRelativePath |-> << >>]
BinFile ==
  [id |-> 2, name |-> <<"a", ".", "b", "i", "n">>,
   webkitRelativePath |-> <<"d", "/", "a", ".", "b", "i", "n">>]
GlbFile == [id |-> 3, name |-> <<"B", ".", "G", "L", "B">>, webkitRelativePath |-> << >>]
TextFile == [id |-> 4, name |-> <<"n", ".", "t", "x", "t">>, webkitRelativePath |-> << >>]
PercentFile ==
  [id |-> 5, name |-> <<"5", "0", "%", ".", "g", "l", "t", "f">>, webkitRelativePath |-> << >>]

\* The file sets dropped or picked: a .gltf with its buffer, a lone .glb, a
\* set without a model file, and a model file with a lone % in its name.
FileSets ==
  << << GltfFile, BinFile >>, << GlbFile >>, << TextFile, BinFile >>, << PercentFile >> >>

\* The URLs the model loader requests through the URL modifier.
RequestUrls ==
  { <<".", "/", "D", "/", "A", ".", "B", "I", "N">>,
    <<"D", "a", "t", "a", ":", ",", "x">>,
    <<"z", ".", "p", "n", "g">>,
    <<"5", "0", "%", ".", "p", "n", "g">> }

\* The keys findAssetFileByUrl derives for each requested URL, the index
\* buildAssetMap builds for each file set and the file files.find picks in
\* it, tabulated (@@ makes TLC compute each table once).
RequestKeys == [url \in RequestUrls |-> CandidateKeys(url)] @@ << >>
IndexOf == [k \in DOMAIN FileSets |-> buildAssetMap(FileSets[k])] @@ << >>
MainOf == [k \in DOMAIN FileSets |-> MainFileIndex(FileSets[k])] @@ << >>

\* What the loader rejects with: an Error, or a value that is not one.
LoadErrors ==
  << [isError |-> TRUE, message |-> "Failed to load buffer", string |-> "Error: Failed to load buffer"],
     [isError |-> FALSE, message |-> "", string |-> "404"] >>

\* A material of a mesh: colour channels and metalness in hundredths.
Material(standard, r, g, b, metalness) ==
  [standard |-> standard, r |-> r, g |-> g, b |-> b, metalness |-> metalness]

\* An entry of a raw extension array of the parsed document.
Str(v) == [isString |-> TRUE, value |-> v]
NotStr(v) == [isString |-> FALSE, value |-> v]

\* An object of gltf.scene that carries geometry and materials: a THREE.Mesh
\* (triangle primitives) or not (the THREE.Points and THREE.Line objects the
\* loader builds for point and line primitives).
Object3D(isMesh) == [isMesh |-> isMesh]

\* What the loader hands to the success callback for each file set: the
\* objects of gltf.scene, the materials of its meshes and parser.json's
\* extension declarations.
GltfOf(k) ==
  IF k = 1
    THEN [objects |-> << Object3D(TRUE) >>,
          materials |-> << Material(TRUE, 10, 10, 10, 0), Material(FALSE, 100, 100, 100, 100) >>,
          isArrayRequired |-> TRUE,
          extensionsRequired |-> << Str("KHR_draco_mesh_compression") >>,
          isArrayUsed |-> TRUE,
          extensionsUsed |-> << Str("KHR_draco_mesh_compression"), NotStr("7"), Str("KHR_materials_ior") >>]
    ELSE [objects |-> << Object3D(TRUE), Object3D(FALSE) >>,
          materials |-> << >>,
          isArrayRequired |-> FALSE,
          extensionsRequired |-> << >>,
          isArrayUsed |-> TRUE,
          extensionsUsed |-> << >>]

VARIABLES
  scene,                 \* the THREE.Scene exists (scene !== null)
  gltfLoader,            \* the GLTFLoader exists
  assetMap,              \* Map<string, File>
  trackedObjectUrls,     \* Set<string> of blob URLs
  transientResourceUrls, \* string[] of blob URLs
  objectUrls,            \* the browser's blob URL store: every URL created so far
  loads,                 \* the gltfLoader.load calls made so far, with what each callback ran
  inflight,              \* sub-resource requests the loader has in flight
  nRequests,             \* number of URL modifier calls so far
  timers,                \* pending window.setTimeout callbacks
  activeModel,           \* 0 for null, else the cycle whose gltf.scene it is
  sceneChildren,         \* the models added to the scene
  disposed,              \* the objects whose resources were disposed: << model, position >>
  hasModel,
  isLoading,
  statusText,
  requiredExtensions,
  usedExtensions,
  framedModel,           \* the model the camera was last framed on, 0 for none
  sceneLook,             \* background, exposure and light intensities
  rawPath,               \* a raw reference string handed to normalizeAssetPath
  outcomes,              \* the results of normalizing it, and of normalizing the result
  fileSet,               \* a file list handed to buildAssetMap
  index,                 \* the Map built from it
  found,                 \* the file findAssetFileByUrl returned for each looked-up URL
  panelPosition,         \* { x, y }
  panelPointerId,        \* 0 for null
  panelPointerOffsetX,
  panelPointerOffsetY,
  isPanelDragging,
  isPanelCollapsed,
  hostSize,              \* clientWidth and clientHeight of the host element
  dragListeners,         \* the pointermove/pointerup/pointercancel listeners are on window
  modelMaterials         \* the materials of the meshes of a model handed to applyAdaptiveSceneLook

sessionVars ==
  << scene, gltfLoader, assetMap, trackedObjectUrls, transientResourceUrls, objectUrls,
     loads, inflight, nRequests, timers, activeModel, sceneChildren, disposed, hasModel,
     isLoading, statusText, requiredExtensions, usedExtensions, framedModel, sceneLook >>

pathVars == << rawPath, outcomes >>

indexVars == << fileSet, index, found >>

panelVars ==
  << panelPosition, panelPointerId, panelPointerOffsetX, panelPointerOffsetY,
     isPanelDragging, isPanelCollapsed, hostSize, dragListeners >>

\* The variables of the function checks and of the panel, which the
\* session leaves alone.
functionVars == << pathVars, indexVars, panelVars, modelMaterials >>

vars == << sessionVars, pathVars, indexVars, panelVars, modelMaterials >>

(***************************************************************************)
(* Blob URLs. URL.createObjectURL returns a URL never returned before: the *)
(* n-th URL created is written n. The store keeps, for every URL created,  *)
(* its file, how often URL.revokeObjectURL was called on it, the load      *)
(* cycle it was created for and whether that was after teardown. The three *)
(* pieces of state the URL functions work on are passed around as one      *)
(* record, urls.                                                           *)
(***************************************************************************)
Urls(store, tracked, transient) ==
  [store |-> store, tracked |-> tracked, transient |-> transient]

CurrentUrls == Urls(objectUrls, trackedObjectUrls, transientResourceUrls)

createObjectURL(store, file, cycle) ==
  Append(store, [file |-> file, revocations |-> 0, cycle |-> cycle, late |-> ~scene])

revokeObjectURL(store, url) ==
  IF url \in DOMAIN store THEN [store EXCEPT ![url].revocations = @ + 1] ELSE store

RECURSIVE RevokeEach(_, _)
RevokeEach(store, list) ==
  IF list = << >> THEN store
  ELSE RevokeEach(revokeObjectURL(store, list[1]), Drop(list, 1))

RECURSIVE SetToSeq(_)
SetToSeq(S) ==
  IF S = {} THEN << >>
  ELSE LET x == CHOOSE y \in S : \A z \in S : y <= z
       IN  << x >> \o SetToSeq(S \ {x})

addTrackedUrl(urls, url) == [urls EXCEPT !.tracked = @ \cup {url}]

\* revokeTrackedUrl releasing the whole tracked set rather than the one URL.
revokeEveryTrackedUrl(urls, url) ==
  [urls EXCEPT !.store = RevokeEach(@, SetToSeq(urls.tracked)), !.tracked = {}]

revokeTrackedUrl(urls, url) ==
  IF url \notin urls.tracked THEN urls
  ELSE [urls EXCEPT !.store = revokeObjectURL(@, url), !.tracked = @ \ {url}]

\* revokeTransientResourceUrls without the reset of the list.
revokeTransientKeepList(urls) ==
  [urls EXCEPT !.store = RevokeEach(@, urls.transient)]

revokeTransientResourceUrls(urls) ==
  [urls EXCEPT !.store = RevokeEach(@, urls.transient), !.transient = << >>]

\* trackedObjectUrls.clear() without the revocations.
ClearTrackedOnly(urls) == [urls EXCEPT !.tracked = {}]

\* for (const url of trackedObjectUrls) URL.revokeObjectURL(url); clear()
RevokeAllTracked(urls) ==
  [urls EXCEPT !.store = RevokeEach(@, SetToSeq(urls.tracked)), !.tracked = {}]

\* What resolveAssetUrl returns: the requested URL (handle 0) or a blob URL.
Unchanged(url) == [url |-> url, handle |-> 0]
BlobUrl(handle) == [url |-> <<"b", "l", "o", "b", ":">>, handle |-> handle]

\* resolveAssetUrl registering the blob URL in the tracked set instead.
MapToTrackedBlobUrl(urls, url, cycle, file) ==
  IF file = FileThrown
    THEN [threw |-> TRUE, urls |-> urls, ret |-> Unchanged(url)]
  ELSE IF file = NoFile
    THEN [threw |-> FALSE, urls |-> urls, ret |-> Unchanged(url)]
  ELSE [threw |-> FALSE,
        urls |-> [urls EXCEPT !.store = createObjectURL(@, file, cycle),
                              !.tracked = @ \cup {Len(urls.store) + 1}],
        ret |-> BlobUrl(Len(urls.store) + 1)]

\* The rest of resolveAssetUrl once findAssetFileByUrl has returned file:
\* the URL state after the call and the value returned, or threw.
MapToBlobUrl(urls, url, cycle, file) ==
  IF file = FileThrown
    THEN [threw |-> TRUE, urls |-> urls, ret |-> Unchanged(url)]
  ELSE IF file = NoFile
    THEN [threw |-> FALSE, urls |-> urls, ret |-> Unchanged(url)]
  ELSE [threw |-> FALSE,
        urls |-> [urls EXCEPT !.store = createObjectURL(@, file, cycle),
                              !.transient = Append(@, Len(urls.store) + 1)],
        ret |-> BlobUrl(Len(urls.store) + 1)]

\* resolveAssetUrl(url), called for load cycle `cycle`.
resolveAssetUrl(urls, map, url, cycle) ==
  IF DOMAIN map = {} \/ IsDataUrl(url)
    THEN [threw |-> FALSE, urls |-> urls, ret |-> Unchanged(url)]
  ELSE MapToBlobUrl(urls, url, cycle, Probe(RequestKeys[url], map))

(***************************************************************************)
(* The model, its extensions and the scene look.                           *)
(***************************************************************************)
RECURSIVE SelectStrings(_)
SelectStrings(list) ==
  IF list = << >> THEN << >>
  ELSE (IF list[1].isString THEN << list[1].value >> ELSE << >>) \o SelectStrings(Drop(list, 1))

toExtensionList(isArray, extensions) ==
  IF ~isArray THEN << >> ELSE SelectStrings(extensions)

extractExtensionInfo(gltf) ==
  [required |-> toExtensionList(gltf.isArrayRequired, gltf.extensionsRequired),
   used |-> toExtensionList(gltf.isArrayUsed, gltf.extensionsUsed)]

\* The model state clearModel works on.
Model(active, children, gone, has, required, used) ==
  [activeModel |-> active, sceneChildren |-> children, disposed |-> gone,
   hasModel |-> has, requiredExtensions |-> required, usedExtensions |-> used]

CurrentModel ==
  Model(activeModel, sceneChildren, disposed, hasModel, requiredExtensions, usedExtensions)

\* The objects of the model that load cycle c installed.
ObjectsOf(c) == GltfOf(loads[c].files).objects

\* disposeObjectTree(object): the objects whose geometry, materials and
\* material textures get disposed, each written << model, position >>.
disposeObjectTree(model) ==
  { << model, i >> : i \in { j \in DOMAIN ObjectsOf(model) : ObjectsOf(model)[j].isMesh } }

\* A clearModel that removes the model and leaves hasModel as it was.
clearModelKeepingHasModel(hasScene, m) ==
  IF ~hasScene \/ m.activeModel = 0
    THEN [m EXCEPT !.requiredExtensions = << >>, !.usedExtensions = << >>]
  ELSE Model(0, m.sceneChildren \ {m.activeModel},
             m.disposed \cup disposeObjectTree(m.activeModel), m.hasModel, << >>, << >>)

clearModel(hasScene, m) ==
  IF ~hasScene \/ m.activeModel = 0
    THEN [m EXCEPT !.requiredExtensions = << >>, !.usedExtensions = << >>]
  ELSE Model(0, m.sceneChildren \ {m.activeModel},
             m.disposed \cup disposeObjectTree(m.activeModel), FALSE, << >>, << >>)

Look(bgColor, exposure, fillIntensity, keyIntensity) ==
  [bgColor |-> bgColor, exposure |-> exposure,
   fillIntensity |-> fillIntensity, keyIntensity |-> keyIntensity]

RECURSIVE SumOver(_, _)
SumOver(list, field) ==
  IF list = << >> THEN 0 ELSE list[1][field] + SumOver(Drop(list, 1), field)

\* c.r * 0.2126 + c.g * 0.7152 + c.b * 0.0722, in millionths.
Luminance(material) == material.r * 2126 + material.g * 7152 + material.b * 722

RECURSIVE LuminanceSum(_)
LuminanceSum(list) ==
  IF list = << >> THEN 0 ELSE Luminance(list[1]) + LuminanceSum(Drop(list, 1))

\* PresetFor with the metalness test before the luminance tests.
PresetForMetalFirst(luminance, metalness, count) ==
  IF metalness > 45 * count THEN Look("0xdfe5ec", 115, 118, 155)
  ELSE IF luminance < 340000 * count THEN Look("0xf0f0ed", 112, 120, 125)
  ELSE IF luminance > 780000 * count THEN Look("0x242734", 92, 95, 145)
  ELSE Look("0xe8e8e8", 100, 110, 110)

\* The preset applyAdaptiveSceneLook chooses for the sums luminance and
\* metalness over count materials: the means are compared with the
\* thresholds 0.34, 0.78 and 0.45 after multiplying both sides by count.
\* Luminance is in millionths, metalness and the intensities in hundredths.
PresetFor(luminance, metalness, count) ==
  IF luminance < 340000 * count THEN Look("0xf0f0ed", 112, 120, 125)
  ELSE IF luminance > 780000 * count THEN Look("0x242734", 92, 95, 145)
  ELSE IF metalness > 45 * count THEN Look("0xdfe5ec", 115, 118, 155)
  ELSE Look("0xe8e8e8", 100, 110, 110)

\* applyAdaptiveSceneLook with a mean luminance of 0 for a model without
\* standard materials.
applyLookZeroLuminanceDefault(materials) ==
  LET standard == SelectSeq(materials, LAMBDA m : m.standard)
  IN  IF Len(standard) > 0
        THEN PresetFor(LuminanceSum(standard), SumOver(standard, "metalness"), Len(standard))
      ELSE PresetFor(0, 0, 1)

applyAdaptiveSceneLook(materials) ==
  LET standard == SelectSeq(materials, LAMBDA m : m.standard)
      materialCount == Len(standard)
      count == IF materialCount > 0 THEN materialCount ELSE 1
      luminance == IF materialCount > 0 THEN LuminanceSum(standard) ELSE 550000
      metalness == IF materialCount > 0 THEN SumOver(standard, "metalness") ELSE 0
  IN  PresetFor(luminance, metalness, count)

(***************************************************************************)
(* Status texts.                                                           *)
(***************************************************************************)
Status(kind, name, count, message) ==
  [kind |-> kind, name |-> name, count |-> count, message |-> message]

InitialStatus == Status("initial", << >>, 0, "")
NoModelStatus == Status("no model file", << >>, 0, "")
LoadingStatus(name) == Status("loading", name, 0, "")
LoadedStatus(name, count) == Status("loaded", name, count, "")
\* The failure status built from error.message whatever the error is.
FailedStatusMessageOnly(error) ==
  Status("load failed: ", << >>, 0, error.message)

FailedStatus(error) ==
  Status("load failed: ", << >>, 0, IF error.isError THEN error.message ELSE error.string)

(***************************************************************************)
(* The loading manager. Every gltfLoader.load and every sub-resource       *)
(* request is an item of the one manager (itemStart ... itemEnd); onLoad   *)
(* runs when an itemEnd leaves no item outstanding, and schedules the      *)
(* deferred revokeTransientResourceUrls (README.md 703-705).               *)
(***************************************************************************)
Loading(ls) == { c \in 1..Len(ls) : ls[c].st = "loading" }

Outstanding(ls, requests) == Cardinality(Loading(ls)) + Cardinality(requests)

\* The pending timers after an itemEnd that leaves ls and requests.
TimersAfterItemEnd(ls, requests) ==
  IF Outstanding(ls, requests) = 0 THEN timers + 1 ELSE timers

SetUrls(urls) ==
  /\ objectUrls' = urls.store
  /\ trackedObjectUrls' = urls.tracked
  /\ transientResourceUrls' = urls.transient

SetModel(m) ==
  /\ activeModel' = m.activeModel
  /\ sceneChildren' = m.sceneChildren
  /\ disposed' = m.disposed
  /\ hasModel' = m.hasModel
  /\ requiredExtensions' = m.requiredExtensions
  /\ usedExtensions' = m.usedExtensions

urlVars == << objectUrls, trackedObjectUrls, transientResourceUrls >>

modelVars ==
  << activeModel, sceneChildren, disposed, hasModel, requiredExtensions, usedExtensions >>

\* The mounted viewer, right after onMounted (README.md 666-729).
Mounted ==
  /\ scene = TRUE
  /\ gltfLoader = TRUE
  /\ assetMap = EmptyMap
  /\ trackedObjectUrls = {}
  /\ transientResourceUrls = << >>
  /\ objectUrls = << >>
  /\ loads = << >>
  /\ inflight = {}
  /\ nRequests = 0
  /\ timers = 0
  /\ activeModel = 0
  /\ sceneChildren = {}
  /\ disposed = {}
  /\ hasModel = FALSE
  /\ isLoading = FALSE
  /\ statusText = InitialStatus
  /\ requiredExtensions = << >>
  /\ usedExtensions = << >>
  /\ framedModel = 0
  /\ sceneLook = Look("0x2a3448", 100, 110, 110)

\* loadModelFromFileSet(files) with files = FileSets[k], from onDrop or
\* onFileInputChange.  The field afterFailure of the new load is a history
\* value the code does not keep: whether an earlier load had failed when
\* this one was started.
LoadModelFromFileSet(k) ==
  LET files == FileSets[k]
      mainUrl == Len(objectUrls) + 1
      cycle == Len(loads) + 1
  IN  \E main \in {MainOf[k]}, built \in {IndexOf[k]} :
      /\ gltfLoader /\ scene
      /\ IF main = 0 THEN
           /\ statusText' = NoModelStatus
           /\ UNCHANGED << functionVars, scene, gltfLoader, assetMap, urlVars, loads, inflight, nRequests,
                           timers, modelVars, isLoading, framedModel, sceneLook >>
         ELSE IF built.threw THEN
           \* buildAssetMap throws: the handler ends there, nothing is assigned.
           UNCHANGED vars
         ELSE
           /\ Len(loads) < MaxLoads
           /\ assetMap' = built.map
           /\ SetUrls(addTrackedUrl(
                 [CurrentUrls EXCEPT !.store = createObjectURL(@, files[main].id, cycle)],
                 mainUrl))
           /\ isLoading' = TRUE
           /\ statusText' = LoadingStatus(files[main].name)
           /\ loads' = Append(loads, [files |-> k, mainUrl |-> mainUrl, st |-> "loading",
                                      stale |-> FALSE, ran |-> << >>,
                                      afterFailure |-> \E b \in 1..Len(loads) : loads[b].st = "failed"])
           /\ UNCHANGED << functionVars, scene, gltfLoader, inflight, nRequests, timers, modelVars,
                           framedModel, sceneLook >>

\* The loader of cycle c requests a sub-resource: the manager passes the URL
\* through the URL modifier, resolveAssetUrl, and starts the request.
ResolveAssetUrl(c, url) ==
  /\ c \in Loading(loads)
  /\ \E r \in {resolveAssetUrl(CurrentUrls, assetMap, url, c)} :
      /\ nRequests' = nRequests + 1
      /\ SetUrls(r.urls)
      \* When resolveAssetUrl throws, the loader gets no URL to request.
      /\ inflight' = IF r.threw THEN inflight
                     ELSE inflight \cup {[id |-> nRequests + 1, cycle |-> c,
                                          requested |-> url, ret |-> r.ret]}
      /\ UNCHANGED << functionVars, scene, gltfLoader, assetMap, loads, timers, modelVars, isLoading,
                      statusText, framedModel, sceneLook >>

\* A sub-resource request settles (loaded or failed): itemEnd.
RequestSettles(request) ==
  /\ request \in inflight
  /\ inflight' = inflight \ {request}
  /\ timers' = TimersAfterItemEnd(loads, inflight \ {request})
  /\ UNCHANGED << functionVars, scene, gltfLoader, assetMap, urlVars, loads, nRequests, modelVars,
                  isLoading, statusText, framedModel, sceneLook >>

\* The success callback running the lighting heuristic before the framing.
LookBeforeFrame == << "applyAdaptiveSceneLook", "frameModel" >>

\* What the success callback runs on the model it has installed, in order
\* (README.md 575-576).
SuccessCallbackRuns == << "frameModel", "applyAdaptiveSceneLook" >>

\* The success callback of cycle c (README.md 562-584), then the loader's
\* itemEnd. The loader calls it once every request of the cycle has settled.
LoadSucceeds(c) ==
  LET files == FileSets[loads[c].files]
      mainFile == files[MainOf[loads[c].files]]
      gltf == GltfOf(loads[c].files)
      urls == revokeTransientResourceUrls(revokeTrackedUrl(CurrentUrls, loads[c].mainUrl))
      cleared == clearModel(scene, CurrentModel)
      extensionInfo == extractExtensionInfo(gltf)
      settled == [loads EXCEPT ![c].st = "done", ![c].stale = ~scene,
                               ![c].ran = IF scene THEN SuccessCallbackRuns ELSE << >>]
  IN  /\ c \in Loading(loads)
      /\ \A request \in inflight : request.cycle # c
      /\ loads' = settled
      /\ timers' = TimersAfterItemEnd(settled, inflight)
      /\ IF ~scene THEN
           UNCHANGED << urlVars, modelVars, isLoading, statusText, framedModel, sceneLook >>
         ELSE
           /\ SetUrls(urls)
           /\ SetModel(Model(c, cleared.sceneChildren \cup {c}, cleared.disposed, TRUE,
                              extensionInfo.required, extensionInfo.used))
           /\ framedModel' = c
           /\ sceneLook' = applyAdaptiveSceneLook(gltf.materials)
           /\ isLoading' = FALSE
           /\ statusText' = LoadedStatus(mainFile.name, Len(files))
      /\ UNCHANGED << functionVars, scene, gltfLoader, assetMap, inflight, nRequests >>

\* An error callback that also removes the active model.
LoadFailsClearingModel(c, e) ==
  LET urls == revokeTransientResourceUrls(revokeTrackedUrl(CurrentUrls, loads[c].mainUrl))
      settled == [loads EXCEPT ![c].st = "failed", ![c].stale = ~scene]
  IN  /\ c \in Loading(loads)
      /\ loads' = settled
      /\ timers' = TimersAfterItemEnd(settled, inflight)
      /\ SetUrls(urls)
      /\ SetModel(clearModel(scene, CurrentModel))
      /\ isLoading' = FALSE
      /\ statusText' = FailedStatus(LoadErrors[e])
      /\ UNCHANGED << functionVars, scene, gltfLoader, assetMap, inflight, nRequests,
                      framedModel, sceneLook >>

\* The error callback of cycle c (README.md 586-592) with error
\* LoadErrors[e], then the loader's itemEnd.
LoadFails(c, e) ==
  LET urls == revokeTransientResourceUrls(revokeTrackedUrl(CurrentUrls, loads[c].mainUrl))
      settled == [loads EXCEPT ![c].st = "failed", ![c].stale = ~scene]
  IN  /\ c \in Loading(loads)
      /\ loads' = settled
      /\ timers' = TimersAfterItemEnd(settled, inflight)
      /\ SetUrls(urls)
      /\ isLoading' = FALSE
      /\ statusText' = FailedStatus(LoadErrors[e])
      /\ UNCHANGED << functionVars, scene, gltfLoader, assetMap, inflight, nRequests, modelVars,
                      framedModel, sceneLook >>

\* The callback of window.setTimeout(() => revokeTransientResourceUrls(), 0).
TimerFires ==
  /\ timers > 0
  /\ timers' = timers - 1
  /\ SetUrls(revokeTransientResourceUrls(CurrentUrls))
  /\ UNCHANGED << functionVars, scene, gltfLoader, assetMap, loads, inflight, nRequests, modelVars,
                  isLoading, statusText, framedModel, sceneLook >>

\* onBeforeUnmount (README.md 731-780).
OnBeforeUnmount ==
  /\ scene
  /\ SetModel(clearModel(scene, CurrentModel))
  /\ SetUrls(RevokeAllTracked(revokeTransientResourceUrls(CurrentUrls)))
  /\ gltfLoader' = FALSE
  /\ scene' = FALSE
  /\ UNCHANGED << functionVars, assetMap, loads, inflight, nRequests, timers, isLoading, statusText,
                  framedModel, sceneLook >>

(***************************************************************************)
(* The extension panel: its position, the drag on its head, the collapse   *)
(* toggle and the resize of the host element. Lengths are in CSS pixels.   *)
(***************************************************************************)
margin == 8

MathMin(a, b) == IF a <= b THEN a ELSE b

MathMax(a, b) == IF a >= b THEN a ELSE b

clampNumber(value, min, max) == MathMin(MathMax(value, min), max)

Size(width, height) == [width |-> width, height |-> height]

Point(x, y) == [x |-> x, y |-> y]

\* The panel's offsetWidth and offsetHeight in a host of the given size:
\* the style sheet fixes the width (230px collapsed; else 100% - 1.2rem up
\* to a host width of 768px, min(420px, 100% - 2rem) above), the height
\* follows from the content.
PanelSize(host, collapsed) ==
  Size(IF collapsed THEN 230
       ELSE IF host.width <= 768 THEN MathMax(host.width - 19, 0)
       ELSE MathMin(420, host.width - 32),
       IF collapsed THEN 40 ELSE 200)

\* clampPanelPosition with the maxima not raised to the margin.
clampPanelPositionNoFloor(position, host, panel) ==
  Point(clampNumber(position.x, margin, host.width - panel.width - margin),
        clampNumber(position.y, margin, host.height - panel.height - margin))

\* clampPanelPosition(): the new panelPosition, for host.clientWidth/Height
\* and panel.offsetWidth/Height.
clampPanelPosition(position, host, panel) ==
  LET maxX == MathMax(host.width - panel.width - margin, margin)
      maxY == MathMax(host.height - panel.height - margin, margin)
  IN  Point(clampNumber(position.x, margin, maxX),
            clampNumber(position.y, margin, maxY))

\* host.getBoundingClientRect(): the host fills the page.
HostRect == [left |-> 0, top |-> 0]

\* panel.getBoundingClientRect(): the panel is positioned in the host.
PanelRect ==
  [left |-> HostRect.left + panelPosition.x, top |-> HostRect.top + panelPosition.y]

\* Pointer ids in use, at most.
MaxPointers == 2

\* Where pointer events happen: clientX and clientY.
ClientXs == {0, 66, 400, 910}

ClientYs == {26, 400, 910}

PointerEvents ==
  [pointerId : 1..MaxPointers, button : {0, 2}, clientX : ClientXs, clientY : ClientYs]

HostSizes == { Size(800, 600), Size(600, 600), Size(200, 150), Size(800, 0) }

\* The event is on the panel head, the top strip of the panel.
OnPanelHead(event) ==
  /\ event.clientX - PanelRect.left \in 0..(PanelSize(hostSize, isPanelCollapsed).width - 1)
  /\ event.clientY - PanelRect.top \in 0..39

\* The panel right after onMounted in a host of the given size: nothing is
\* captured and the initial position { x: 16, y: 16 } has been clamped.
PanelMounted(host) ==
  /\ hostSize = host
  /\ isPanelCollapsed = FALSE
  /\ isPanelDragging = FALSE
  /\ panelPointerId = 0
  /\ panelPointerOffsetX = 0
  /\ panelPointerOffsetY = 0
  /\ dragListeners = FALSE
  /\ panelPosition = clampPanelPosition(Point(16, 16), host, PanelSize(host, FALSE))

otherVars == << sessionVars, pathVars, indexVars, modelMaterials >>

\* pointerdown on the panel head.
OnPanelPointerDown(event) ==
  /\ OnPanelHead(event)
  /\ IF event.button # 0 THEN UNCHANGED panelVars
     ELSE /\ panelPointerId' = event.pointerId
          /\ panelPointerOffsetX' = event.clientX - PanelRect.left
          /\ panelPointerOffsetY' = event.clientY - PanelRect.top
          /\ isPanelDragging' = TRUE
          /\ dragListeners' = TRUE
          /\ UNCHANGED << panelPosition, isPanelCollapsed, hostSize >>
  /\ UNCHANGED otherVars

\* pointermove on window, while the listeners are registered.
OnPanelPointerMove(event) ==
  /\ dragListeners
  /\ IF panelPointerId # event.pointerId THEN UNCHANGED panelVars
     ELSE /\ panelPosition' =
               clampPanelPosition(
                 Point(event.clientX - HostRect.left - panelPointerOffsetX,
                       event.clientY - HostRect.top - panelPointerOffsetY),
                 hostSize, PanelSize(hostSize, isPanelCollapsed))
          /\ UNCHANGED << panelPointerId, panelPointerOffsetX, panelPointerOffsetY,
                          isPanelDragging, isPanelCollapsed, hostSize, dragListeners >>
  /\ UNCHANGED otherVars

\* onPanelPointerUp without the pointer id test: any pointerup or
\* pointercancel ends the drag.
OnAnyPointerUp(event) ==
  /\ dragListeners
  /\ panelPointerId' = 0
  /\ isPanelDragging' = FALSE
  /\ dragListeners' = FALSE
  /\ UNCHANGED << panelPosition, panelPointerOffsetX, panelPointerOffsetY,
                  isPanelCollapsed, hostSize >>
  /\ UNCHANGED otherVars

\* pointerup or pointercancel on window, while the listeners are registered.
OnPanelPointerUp(event) ==
  /\ dragListeners
  /\ IF panelPointerId # event.pointerId THEN UNCHANGED panelVars
     ELSE /\ panelPointerId' = 0
          /\ isPanelDragging' = FALSE
          /\ dragListeners' = FALSE
          /\ UNCHANGED << panelPosition, panelPointerOffsetX, panelPointerOffsetY,
                          isPanelCollapsed, hostSize >>
  /\ UNCHANGED otherVars

\* togglePanelCollapsed: the flag flips, the panel is rendered anew
\* (nextTick), then the position is clamped for the panel's new size.
TogglePanelCollapsed ==
  /\ isPanelCollapsed' = ~isPanelCollapsed
  /\ panelPosition' =
       clampPanelPosition(panelPosition, hostSize, PanelSize(hostSize, ~isPanelCollapsed))
  /\ UNCHANGED << panelPointerId, panelPointerOffsetX, panelPointerOffsetY,
                  isPanelDragging, hostSize, dragListeners >>
  /\ UNCHANGED otherVars

\* The host is resized and the ResizeObserver callback runs
\* updateRendererSize, which returns before clampPanelPosition when the
\* host has no width or no height.
UpdateRendererSize(host) ==
  /\ host # hostSize
  /\ hostSize' = host
  /\ panelPosition' =
       IF host.width = 0 \/ host.height = 0 THEN panelPosition
       ELSE clampPanelPosition(panelPosition, host, PanelSize(host, isPanelCollapsed))
  /\ UNCHANGED << panelPointerId, panelPointerOffsetX, panelPointerOffsetY,
                  isPanelDragging, isPanelCollapsed, dragListeners >>
  /\ UNCHANGED otherVars

NoPath == /\ rawPath = << >> /\ outcomes = << >>

NotBuilt == [built |-> FALSE, threw |-> FALSE, map |-> EmptyMap]

NoIndex == /\ fileSet = << >> /\ index = NotBuilt /\ found = << >>

NoMaterials == modelMaterials = << >>

Init == Mounted /\ NoPath /\ NoIndex /\ PanelMounted(Size(800, 600)) /\ NoMaterials

Next ==
  \/ \E k \in 1..Len(FileSets) : LoadModelFromFileSet(k)
  \/ \E c \in 1..Len(loads), url \in RequestUrls :
       nRequests < MaxRequests /\ ResolveAssetUrl(c, url)
  \/ \E request \in inflight : RequestSettles(request)
  \/ \E c \in 1..Len(loads) : LoadSucceeds(c)
  \/ \E c \in 1..Len(loads), e \in 1..Len(LoadErrors) : LoadFails(c, e)
  \/ TimerFires
  \/ OnBeforeUnmount

\* The viewer session: drops, loader callbacks, timers and teardown.
Spec == Init /\ [][Next]_vars

(***************************************************************************)
(* One load cycle on its own: a file set is dropped once and its loader    *)
(* issues sub-resource requests, up to MaxCalls of them.                   *)
(***************************************************************************)
MaxCalls == 3

NextOneLoad ==
  \/ \E k \in 1..Len(FileSets) : loads = << >> /\ LoadModelFromFileSet(k)
  \/ \E url \in RequestUrls : nRequests < MaxCalls /\ ResolveAssetUrl(1, url)
  \/ \E request \in inflight : RequestSettles(request)
  \/ LoadSucceeds(1)
  \/ \E e \in 1..Len(LoadErrors) : LoadFails(1, e)
  \/ TimerFires
  \/ OnBeforeUnmount

SpecOneLoad == Init /\ [][NextOneLoad]_vars

(***************************************************************************)
(* normalizeAssetPath on its own: a raw reference string is normalized,    *)
(* and the result is normalized again.                                     *)
(***************************************************************************)
MaxPathLen == 4

PathAlphabet == {"/", ".", "\\", "%", "2", "5", "f", "a", "?"}

\* Longer references: double encoding, repeated prefixes, a blob origin, a
\* query, an encoded space, an encoded multi-byte character.
LongPaths ==
  { <<"%", "2", "5", "2", "F", "a">>,
    <<".", "/", ".", "/", "a">>,
    <<"/", "/", "a", "/", "b">>,
    <<"b", "l", "o", "b", ":", "h", ":", "/", "u", "/", "a", ".", "b", "i", "n">>,
    <<"a", ".", "b", "i", "n", "?", "v", "=", "1", "#", "x">>,
    <<"a", "%", "2", "0", "b", ".", "p", "n", "g">>,
    <<"%", "C", "3", "%", "A", "9", ".", "p", "n", "g">>,
    <<"t", "\\", "a", ".", "b", "i", "n">> }

PathInputs ==
  LongPaths \cup UNION { [1..n -> PathAlphabet] : n \in 0..MaxPathLen }

InitPath ==
  /\ Mounted
  /\ NoIndex
  /\ PanelMounted(Size(800, 600))
  /\ NoMaterials
  /\ rawPath \in PathInputs
  /\ outcomes = << >>

NormalizeAssetPath ==
  /\ outcomes = << >>
  /\ outcomes' = << normalizeAssetPath(rawPath) >>
  /\ UNCHANGED << sessionVars, indexVars, panelVars, modelMaterials, rawPath >>

NormalizeAgain ==
  /\ Len(outcomes) = 1
  /\ outcomes[1] # THROWN
  /\ outcomes' = Append(outcomes, normalizeAssetPath(outcomes[1]))
  /\ UNCHANGED << sessionVars, indexVars, panelVars, modelMaterials, rawPath >>

NextPath == NormalizeAssetPath \/ NormalizeAgain

SpecPath == InitPath /\ [][NextPath]_vars

(***************************************************************************)
(* buildAssetMap and findAssetFileByUrl on their own: an index is built    *)
(* from a file list that contains Robot.BIN, then URLs are looked up.      *)
(***************************************************************************)
\* Files other than Robot.BIN in a file list, at most.
MaxOthers == 3

RobotFile ==
  [id |-> 1, name |-> <<"R", "o", "b", "o", "t", ".", "B", "I", "N">>,
   webkitRelativePath |-> <<"t", "e", "x", "t", "u", "r", "e", "s", "/", "R", "o", "b", "o", "t", ".", "B", "I", "N">>]

OtherFiles ==
  { [id |-> 2, name |-> <<"r", "o", "b", "o", "t", ".", "b", "i", "n">>,
   webkitRelativePath |-> << >>],
    [id |-> 3, name |-> <<"R", "O", "B", "O", "T", ".", "B", "I", "N">>,
   webkitRelativePath |-> <<"T", "E", "X", "T", "U", "R", "E", "S", "/", "R", "O", "B", "O", "T", ".", "B", "I", "N">>],
    [id |-> 4, name |-> <<"s", "c", "e", "n", "e", ".", "g", "l", "t", "f">>,
   webkitRelativePath |-> << >>],
    [id |-> 5, name |-> <<"s", "k", "i", "n", ".", "p", "n", "g">>,
   webkitRelativePath |-> <<"t", "e", "x", "t", "u", "r", "e", "s", "/", "s", "k", "i", "n", ".", "p", "n", "g">>],
    [id |-> 6, name |-> <<"1", "0", "0", "%", ".", "p", "n", "g">>,
   webkitRelativePath |-> << >>],
    [id |-> 7, name |-> <<"R", "o", "b", "o", "t", ".", "B", "I", "N">>,
   webkitRelativePath |-> <<"l", "o", "d", "/", "R", "o", "b", "o", "t", ".", "B", "I", "N">>] }

\* The file lists: Robot.BIN and up to MaxOthers other files, in any order.
IndexFileSets ==
  { files \in UNION { [1..n -> {RobotFile} \cup OtherFiles] : n \in 1..(MaxOthers + 1) } :
      /\ \E i \in 1..Len(files) : files[i] = RobotFile
      /\ \A i, j \in 1..Len(files) : files[i] = files[j] => i = j }

LookupUrls ==
  << <<".", "/", "t", "e", "x", "t", "u", "r", "e", "s", "/", "r", "o", "b", "o", "t", ".", "b", "i", "n">>,
     <<"r", "o", "b", "o", "t", ".", "b", "i", "n">>,
     <<"T", "E", "X", "T", "U", "R", "E", "S", "/", "R", "O", "B", "O", "T", ".", "B", "I", "N">> >>

NotLookedUp == -2

InitIndex ==
  /\ Mounted
  /\ NoPath
  /\ PanelMounted(Size(800, 600))
  /\ NoMaterials
  /\ fileSet \in IndexFileSets
  /\ index = NotBuilt
  /\ found = [u \in 1..Len(LookupUrls) |-> NotLookedUp]

BuildAssetMap ==
  /\ ~index.built
  /\ \E next \in {buildAssetMap(fileSet)} :
       index' = [built |-> TRUE, threw |-> next.threw, map |-> next.map]
  /\ UNCHANGED << sessionVars, pathVars, panelVars, modelMaterials, fileSet, found >>

FindAssetFileByUrl(u) ==
  /\ index.built /\ ~index.threw
  /\ found[u] = NotLookedUp
  /\ found' = [found EXCEPT ![u] = findAssetFileByUrl(LookupUrls[u], index.map)]
  /\ UNCHANGED << sessionVars, pathVars, panelVars, modelMaterials, fileSet, index >>

NextIndex ==
  \/ BuildAssetMap
  \/ \E u \in 1..Len(LookupUrls) : FindAssetFileByUrl(u)

SpecIndex == InitIndex /\ [][NextIndex]_vars

(***************************************************************************)
(* The panel on its own: pointer events on the head and on window, the      *)
(* collapse toggle and host resizes, in any order.                         *)
(***************************************************************************)
InitPanel ==
  /\ Mounted
  /\ NoPath
  /\ NoIndex
  /\ NoMaterials
  /\ \E host \in HostSizes : PanelMounted(host)

NextPanel ==
  \/ \E event \in PointerEvents : OnPanelPointerDown(event)
  \/ \E event \in PointerEvents : OnPanelPointerMove(event)
  \/ \E event \in PointerEvents : OnPanelPointerUp(event)
  \/ TogglePanelCollapsed
  \/ \E host \in HostSizes : UpdateRendererSize(host)

SpecPanel == InitPanel /\ [][NextPanel]_vars

(***************************************************************************)
(* applyAdaptiveSceneLook on its own: the look is computed once for a      *)
(* model with the given materials.                                         *)
(***************************************************************************)
\* Materials of a model, at most.
MaxMaterials == 2

\* The scene look set by onMounted, before any model.
InitialLook == Look("0x2a3448", 100, 110, 110)

\* Standard and other materials; dark grey, mid grey, blue and yellow;
\* metalness 0, 0.45 and 1.
LookMaterials ==
  { Material(standard, rgb[1], rgb[2], rgb[3], metalness) :
      standard \in BOOLEAN,
      rgb \in { <<10, 10, 10>>, <<50, 50, 50>>, <<0, 0, 100>>, <<100, 100, 0>> },
      metalness \in {0, 45, 100} }

InitLook ==
  /\ Mounted
  /\ NoPath
  /\ NoIndex
  /\ PanelMounted(Size(800, 600))
  /\ modelMaterials \in UNION { [1..n -> LookMaterials] : n \in 0..MaxMaterials }

ApplyAdaptiveSceneLook ==
  /\ sceneLook = InitialLook
  /\ sceneLook' = applyAdaptiveSceneLook(modelMaterials)
  /\ UNCHANGED << functionVars, scene, gltfLoader, assetMap, urlVars, loads, inflight, nRequests,
                  timers, modelVars, isLoading, statusText, framedModel >>

NextLook == ApplyAdaptiveSceneLook

SpecLook == InitLook /\ [][NextLook]_vars

(***************************************************************************)
(* Properties of the viewer session (Spec).                                *)
(***************************************************************************)
Handles == DOMAIN objectUrls

Revocations(h) == objectUrls[h].revocations

TransientSet == { transientResourceUrls[i] : i \in 1..Len(transientResourceUrls) }

\* The view is torn down and nothing is pending: no load is in flight, no
\* request is in flight, no timer is due.
SessionEnded ==
  /\ ~scene
  /\ Loading(loads) = {}
  /\ inflight = {}
  /\ timers = 0

\* C1: once the view is torn down and every pending loader callback and
\* timer has fired, every blob URL created (for a main file or for a
\* sub-resource) has been revoked: as many released as created.
C1_AllReleasedAtSessionEnd ==
  SessionEnded =>
    /\ \A h \in Handles : Revocations(h) >= 1
    /\ Cardinality({ h \in Handles : Revocations(h) >= 1 }) = Len(objectUrls)

\* C1 witness: two overlapping loads, one succeeded and one failed, both
\* callbacks after teardown, with a sub-resource URL created after teardown.
C1_Witness ==
  /\ SessionEnded
  /\ Len(loads) = 2
  /\ loads[1].st = "done" /\ loads[1].stale
  /\ loads[2].st = "failed" /\ loads[2].stale
  /\ \E h \in Handles : objectUrls[h].late

\* C2: a step other than teardown revokes no blob URL that a request of a
\* load cycle still in flight is reading (the release one cycle's success
\* callback, error callback or deferred timer triggers stays within that
\* cycle).
C2_ReleaseStaysWithinCycle ==
  [][ scene' = scene =>
        \A request \in inflight \cap inflight' :
          (request.ret.handle # 0 /\ loads'[request.cycle].st = "loading")
            => objectUrls'[request.ret.handle].revocations
                 = objectUrls[request.ret.handle].revocations ]_vars

\* C3: no blob URL is ever revoked more than once; revokeTrackedUrl on a
\* URL that is not tracked changes nothing, and so does
\* revokeTransientResourceUrls when nothing is registered.
C3_NeverRevokedTwice ==
  /\ \A h \in Handles : Revocations(h) <= 1
  /\ \A h \in Handles \ trackedObjectUrls : revokeTrackedUrl(CurrentUrls, h) = CurrentUrls
  /\ transientResourceUrls = << >> => revokeTransientResourceUrls(CurrentUrls) = CurrentUrls

\* C3 witness: after teardown and all callbacks, with a failed load, three
\* URLs were created and each was revoked exactly once.
C3_Witness ==
  /\ SessionEnded
  /\ Len(objectUrls) >= 3
  /\ \E c \in 1..Len(loads) : loads[c].st = "failed" /\ ~loads[c].stale
  /\ \A h \in Handles : Revocations(h) = 1

\* C4: the step in which the error callback of a load fires revokes that
\* load's main URL and every URL in the transient list, empties the list,
\* sets isLoading to false and sets the status to the failure prefix
\* followed by the error's message, or by String(error) when it is no Error.
C4_FailureReleasesAndReports ==
  [][ \A c \in 1..Len(loads), e \in 1..Len(LoadErrors) :
        LoadFails(c, e) =>
          /\ objectUrls'[loads[c].mainUrl].revocations >= 1
          /\ loads[c].mainUrl \notin trackedObjectUrls'
          /\ \A h \in TransientSet : objectUrls'[h].revocations >= 1
          /\ transientResourceUrls' = << >>
          /\ isLoading' = FALSE
          /\ statusText'.kind = "load failed: "
          /\ statusText'.message =
               (IF LoadErrors[e].isError THEN LoadErrors[e].message
                                         ELSE LoadErrors[e].string) ]_vars

\* C4 witness: a load failed with a value that is not an Error while the
\* view was mounted, after a sub-resource URL had been created for it.
C4_Witness ==
  /\ scene
  /\ Len(loads) = 1
  /\ loads[1].st = "failed"
  /\ statusText.message = "404"
  /\ \E h \in Handles : h # loads[1].mainUrl /\ Revocations(h) = 1

\* The file sets of FileSets without a .glb or .gltf file.
NoModelFileSets == { 3 }

\* C5: loadModelFromFileSet on a file set without a .glb/.gltf file sets the
\* status to the "no model file" message and changes nothing else: no load
\* is started, no blob URL is created, the model, the index and both pools
\* stay as they are.
C5_NoModelFileNoLoad ==
  [][ \A k \in NoModelFileSets :
        LoadModelFromFileSet(k) =>
          /\ statusText' = NoModelStatus
          /\ UNCHANGED << assetMap, urlVars, modelVars, loads, inflight, isLoading >> ]_vars

\* C5 witness: a model is displayed, a load is in flight, and the status
\* shows the "no model file" message.
C5_Witness ==
  /\ statusText = NoModelStatus
  /\ activeModel # 0
  /\ Loading(loads) # {}
  /\ DOMAIN assetMap # {}

(***************************************************************************)
(* Properties of resolveAssetUrl within one load cycle (SpecOneLoad).      *)
(***************************************************************************)
\* No interception applies to url: the index is empty, url is a data: URI,
\* or none of the keys derived from url is a key of the index.
NoKeyMatches(url) ==
  \/ DOMAIN assetMap = {}
  \/ IsDataUrl(url)
  \/ \A i \in 1..Len(RequestKeys[url].keys) :
       RequestKeys[url].keys[i] \notin DOMAIN assetMap

\* The request a resolveAssetUrl step started.
Started == inflight' \ inflight

\* C9: a resolveAssetUrl call to which no interception applies returns the
\* requested URL unchanged, creates no blob URL and leaves both pools as
\* they are.
C9_PassThroughUnchanged ==
  [][ \A url \in RequestUrls :
        (ResolveAssetUrl(1, url) /\ NoKeyMatches(url)) =>
          /\ UNCHANGED urlVars
          /\ \E request \in Started :
               request.requested = url /\ request.ret = Unchanged(url) ]_vars

\* C10: a resolveAssetUrl call for which a derived key matches the index
\* creates a blob URL never used before for the matched file, appends
\* exactly that URL to the transient list and returns it, and leaves the
\* tracked set alone; the two pools are always disjoint.
C10_MatchCreatesTransient ==
  /\ [][ \A url \in RequestUrls :
           (ResolveAssetUrl(1, url) /\ ~NoKeyMatches(url)) =>
             /\ Len(objectUrls') = Len(objectUrls) + 1
             /\ objectUrls'[Len(objectUrls')].file = Probe(RequestKeys[url], assetMap)
             /\ objectUrls'[Len(objectUrls')].revocations = 0
             /\ \A h \in Handles : objectUrls'[h] = objectUrls[h]
             /\ transientResourceUrls' = Append(transientResourceUrls, Len(objectUrls'))
             /\ trackedObjectUrls' = trackedObjectUrls
             /\ \E request \in Started :
                  request.requested = url /\ request.ret = BlobUrl(Len(objectUrls')) ]_vars
  /\ [](trackedObjectUrls \cap TransientSet = {})

\* C10 witness: two requests for the same URL are in flight at once, each
\* with a blob URL of its own, both in the transient list, while the main
\* URL is tracked.
C10_Witness ==
  \E r1, r2 \in inflight :
    /\ r1.requested = r2.requested
    /\ r1.ret.handle # 0 /\ r2.ret.handle # 0
    /\ r1.ret.handle # r2.ret.handle
    /\ {r1.ret.handle, r2.ret.handle} \subseteq TransientSet
    /\ trackedObjectUrls # {}

(***************************************************************************)
(* Properties of normalizeAssetPath (SpecPath).                            *)
(***************************************************************************)
\* C6: normalizing the result of normalizeAssetPath again gives the same
\* string: normalizeAssetPath(normalizeAssetPath(s)) = normalizeAssetPath(s).
C6_Idempotent ==
  Len(outcomes) = 2 => outcomes[2] = outcomes[1]

\* C7: normalizeAssetPath returns a string for every input; it never throws.
C7_NeverThrows ==
  \A i \in 1..Len(outcomes) : outcomes[i] # THROWN

(***************************************************************************)
(* Properties of the index (SpecIndex).                                    *)
(***************************************************************************)
Looked == { u \in 1..Len(LookupUrls) : found[u] # NotLookedUp }

RobotKeys ==
  { << "r", "o", "b", "o", "t", ".", "b", "i", "n" >>,
    << "t", "e", "x", "t", "u", "r", "e", "s", "/", "r", "o", "b", "o", "t", ".", "b", "i", "n" >> }

\* No file other than Robot.BIN gets a key from buildAssetMap that equals,
\* ignoring case, robot.bin or textures/robot.bin.
NoCollision ==
  \A i \in 1..Len(fileSet) :
    fileSet[i] # RobotFile =>
      \A j \in 1..Len(FileKeys(fileSet[i]).keys) :
        ToLowerCase(FileKeys(fileSet[i]).keys[j]) \notin RobotKeys

KeysOfFile(i) ==
  { FileKeys(fileSet[i]).keys[n] : n \in 1..Len(FileKeys(fileSet[i]).keys) }

\* Two files of the list produce a common key.
SomeKeyCollides ==
  \E i, j \in 1..Len(fileSet) : i < j /\ KeysOfFile(i) \cap KeysOfFile(j) # {}

\* C20: for a file list in which two files produce a common key,
\* buildAssetMap raises no error, and every key a file produces maps to the
\* last file of the list that produces it: a colliding key to the later
\* file, a key of the earlier file that no later file produces to the
\* earlier file.
C20_LastWriteWins ==
  (index.built /\ SomeKeyCollides) =>
    /\ ~index.threw
    /\ \A i \in 1..Len(fileSet) : \A key \in KeysOfFile(i) :
         /\ key \in DOMAIN index.map
         /\ \E j \in i..Len(fileSet) :
              /\ index.map[key] = fileSet[j].id
              /\ key \in KeysOfFile(j)
              /\ \A later \in (j + 1)..Len(fileSet) : key \notin KeysOfFile(later)

(***************************************************************************)
(* Properties of the load callbacks and of the model (Spec).               *)
(***************************************************************************)
\* C11: the main blob URL of every load is revoked exactly once, by the
\* load's own success or error callback or by teardown, whichever comes
\* first: while the view is mounted and the load is in flight the URL is
\* tracked and not revoked (no other load's completion revokes it), and
\* once the load has completed or the view is torn down it has been revoked
\* once and is no longer tracked.
C11_MainUrlRevokedOnceAtOwnCompletion ==
  \A c \in 1..Len(loads) :
    /\ Revocations(loads[c].mainUrl) <= 1
    /\ (scene /\ loads[c].st = "loading")
         => /\ Revocations(loads[c].mainUrl) = 0
            /\ loads[c].mainUrl \in trackedObjectUrls
    /\ (~scene \/ loads[c].st # "loading")
         => /\ Revocations(loads[c].mainUrl) = 1
            /\ loads[c].mainUrl \notin trackedObjectUrls

\* C11 witness: of two overlapping loads the first has completed while the
\* view is mounted and its main URL is revoked; the second is still in
\* flight with its main URL tracked and not revoked.
C11_Witness ==
  /\ scene
  /\ Len(loads) = 2
  /\ loads[1].st \in {"done", "failed"}
  /\ Revocations(loads[1].mainUrl) = 1
  /\ loads[2].st = "loading"
  /\ Revocations(loads[2].mainUrl) = 0
  /\ loads[2].mainUrl \in trackedObjectUrls

\* The blob URLs of the transient list that the step revokes.
TransientRevoked ==
  { h \in TransientSet : objectUrls'[h].revocations > objectUrls[h].revocations }

\* C12: while the view is mounted, a step that revokes blob URLs of the
\* transient list is the deferred timer callback, not a loader callback,
\* and it happens when the load the URL was created for is no longer in
\* flight and none of its requests is.
C12_TransientReleaseDeferred ==
  [][ (scene' = scene /\ TransientRevoked # {}) =>
        /\ TimerFires
        /\ \A h \in TransientRevoked :
             /\ loads[objectUrls[h].cycle].st # "loading"
             /\ \A request \in inflight : request.cycle # objectUrls[h].cycle ]_vars

\* C13: a success or error callback that fires after teardown (scene is
\* null) leaves the active model, the extension lists, hasModel, isLoading
\* and the status text unchanged.
C13_StaleCallbackChangesNothing ==
  [][ \A c \in 1..Len(loads) :
        (~scene /\ (LoadSucceeds(c) \/ \E e \in 1..Len(LoadErrors) : LoadFails(c, e)))
          => UNCHANGED << modelVars, isLoading, statusText >> ]_vars

\* C14: at most one model is in the scene, and it is the active model; and
\* the success callback that installs a new model over an active one has
\* removed the old model from the scene and disposed the geometry, materials
\* and textures of every object of it.
C14_ClearBeforeReplace ==
  /\ [](Cardinality(sceneChildren) <= 1)
  /\ [](sceneChildren = IF activeModel = 0 THEN {} ELSE {activeModel})
  /\ [][ \A c \in 1..Len(loads) :
           (LoadSucceeds(c) /\ scene /\ activeModel # 0) =>
             /\ activeModel' = c
             /\ activeModel \notin sceneChildren'
             /\ \A i \in DOMAIN ObjectsOf(activeModel) :
                  << activeModel, i >> \in disposed' ]_vars

\* C15: once a loadModelFromFileSet call has started a load, and once the
\* view is torn down, no model is active: the model displayed before is no
\* longer the active model nor in the scene.
C15_ModelDestroyedAtNextLoadStart ==
  [][ /\ \A k \in 1..Len(FileSets) :
           (LoadModelFromFileSet(k) /\ Len(loads') > Len(loads))
             => (activeModel' = 0 /\ sceneChildren' = {})
      /\ OnBeforeUnmount => (activeModel' = 0 /\ sceneChildren' = {}) ]_vars

\* The loads whose record of what the callback ran changes in the step.
RanChanged == { c \in 1..Len(loads) : loads'[c].ran # loads[c].ran }

\* C18: frameModel and applyAdaptiveSceneLook run in the success callback
\* of a load while the view is mounted and nowhere else: each successful
\* load has run frameModel, then applyAdaptiveSceneLook, once, on the model
\* it has just installed as the active model; a failed load, a load whose
\* callback comes after teardown and a loadModelFromFileSet call (with or
\* without a model file) have run neither.
C18_HeuristicsOnlyInSuccessCallback ==
  /\ [](\A c \in 1..Len(loads) :
          loads[c].ran = IF loads[c].st = "done" /\ ~loads[c].stale
                           THEN << "frameModel", "applyAdaptiveSceneLook" >>
                         ELSE << >>)
  /\ [][ (framedModel' # framedModel \/ sceneLook' # sceneLook \/ RanChanged # {}) =>
           /\ scene
           /\ \E c \in 1..Len(loads) :
                /\ LoadSucceeds(c)
                /\ RanChanged = {c}
                /\ activeModel' = c
                /\ c \in sceneChildren'
                /\ framedModel' = c
                /\ sceneLook' = applyAdaptiveSceneLook(GltfOf(loads[c].files).materials) ]_vars
  /\ [][ \/ UNCHANGED << framedModel, sceneLook >>
         \/ /\ scene
            /\ ~\E c \in 1..Len(loads), e \in 1..Len(LoadErrors) : LoadFails(c, e)
            /\ ~\E k \in 1..Len(FileSets) : LoadModelFromFileSet(k) ]_vars

\* C18 witness: the first of two loads succeeded and was replaced by the
\* second, which is framed and lit (its look differs from the first one's);
\* a file set without a model file was dropped after that, all while the
\* view is mounted.
C18_Witness ==
  /\ scene
  /\ Len(loads) = 2
  /\ loads[1].st = "done" /\ loads[1].files = 2
  /\ loads[2].st = "done" /\ loads[2].files = 1
  /\ activeModel = 2
  /\ framedModel = 2
  /\ sceneLook = Look("0xf0f0ed", 112, 120, 125)
  /\ statusText = NoModelStatus

(***************************************************************************)
(* Properties of the panel (SpecPanel).                                    *)
(***************************************************************************)
\* The panel position is within the margins of the host, for the sizes the
\* host and the panel have in the state; where the host leaves no room, it
\* is at the margin.
PanelWithinMargins ==
  LET panel == PanelSize(hostSize, isPanelCollapsed)
      roomX == hostSize.width - panel.width - margin
      roomY == hostSize.height - panel.height - margin
  IN  /\ margin <= panelPosition.x
      /\ panelPosition.x <= (IF roomX > margin THEN roomX ELSE margin)
      /\ margin <= panelPosition.y
      /\ panelPosition.y <= (IF roomY > margin THEN roomY ELSE margin)
      /\ roomX < margin => panelPosition.x = margin
      /\ roomY < margin => panelPosition.y = margin

\* A step that runs clampPanelPosition: a pointermove of the captured
\* pointer, a collapse toggle, or a host resize to a size with a width and
\* a height.
ClampingStep ==
  \/ \E event \in PointerEvents :
       panelPointerId = event.pointerId /\ OnPanelPointerMove(event)
  \/ TogglePanelCollapsed
  \/ \E host \in HostSizes :
       host.width # 0 /\ host.height # 0 /\ UpdateRendererSize(host)

\* C16: after a pointermove of the captured pointer, after a collapse
\* toggle and after a host resize that reaches clampPanelPosition, the
\* panel position is within [8, max(hostSize - panelSize - 8, 8)] on each
\* axis, pinned at 8 where the host is too small; and host 800x600, panel
\* 420x200, requested position (-50, 900) give (8, 392).
C16_PositionClamped ==
  /\ [][ PanelWithinMargins' \/ ~ClampingStep ]_vars
  /\ [](clampPanelPosition(Point(-50, 900), Size(800, 600), Size(420, 200)) = Point(8, 392))
  /\ [](PanelSize(Size(800, 600), FALSE) = Size(420, 200))

\* C16 witness: in a host of 800x600 the expanded panel, dragged to the
\* requested position (-50, 900), is at (8, 392) and still captured.
C16_Witness ==
  /\ hostSize = Size(800, 600)
  /\ ~isPanelCollapsed
  /\ isPanelDragging
  /\ panelPointerId # 0
  /\ 0 - panelPointerOffsetX = -50
  /\ 910 - panelPointerOffsetY = 900
  /\ panelPosition = Point(8, 392)

(***************************************************************************)
(* Properties of applyAdaptiveSceneLook (SpecLook).                        *)
(***************************************************************************)
StandardMaterials == SelectSeq(modelMaterials, LAMBDA m : m.standard)

LookApplied == sceneLook # InitialLook

\* C17: applied to a model without standard materials (no material at all,
\* or only materials of other kinds), applyAdaptiveSceneLook sets the
\* neutral default look: background 0xe8e8e8, exposure 1, fill 1.1, key
\* 1.1, and none of the three other presets.
C17_NoStandardMaterialGivesDefault ==
  (LookApplied /\ StandardMaterials = << >>) =>
    /\ sceneLook = Look("0xe8e8e8", 100, 110, 110)
    /\ sceneLook.bgColor \notin {"0xf0f0ed", "0x242734", "0xdfe5ec"}

\* C17 witness: the look was applied for a model with two materials, both
\* not standard, one dark and one bright and metallic, and is the default.
C17_Witness ==
  /\ LookApplied
  /\ modelMaterials = << Material(FALSE, 10, 10, 10, 0), Material(FALSE, 100, 100, 0, 100) >>
  /\ sceneLook.bgColor = "0xe8e8e8"

\* The mean luminance and the mean metalness of the standard materials,
\* compared with a threshold given in hundredths; 0.55 and 0 when there is
\* no standard material.
MeanLuminanceBelow(threshold) ==
  IF StandardMaterials = << >> THEN 55 < threshold
  ELSE LuminanceSum(StandardMaterials) < threshold * 10000 * Len(StandardMaterials)

MeanLuminanceAbove(threshold) ==
  IF StandardMaterials = << >> THEN 55 > threshold
  ELSE LuminanceSum(StandardMaterials) > threshold * 10000 * Len(StandardMaterials)

MeanMetalnessAbove(threshold) ==
  /\ StandardMaterials # << >>
  /\ SumOver(StandardMaterials, "metalness") > threshold * Len(StandardMaterials)

\* C19 as stated: the dark background for a low mean luminance, the light
\* background for a very high one.
C19_DarkBackgroundForLowLuminance ==
  LookApplied =>
    sceneLook =
      IF MeanLuminanceBelow(34) THEN Look("0x242734", 92, 95, 145)
      ELSE IF MeanLuminanceAbove(78) THEN Look("0xf0f0ed", 112, 120, 125)
      ELSE IF MeanMetalnessAbove(45) THEN Look("0xdfe5ec", 115, 118, 155)
      ELSE Look("0xe8e8e8", 100, 110, 110)

\* C19: the look applied is one of four fixed presets, chosen from the mean
\* luminance and the mean metalness: the preset with the light background
\* 0xf0f0ed when the mean luminance is below 0.34, the preset with the dark
\* background 0x242734 when it is above 0.78, the metal preset when the
\* luminance is in between and the mean metalness is above 0.45, and the
\* neutral default otherwise.
C19_PresetByBand ==
  LookApplied =>
    sceneLook =
      IF MeanLuminanceBelow(34) THEN Look("0xf0f0ed", 112, 120, 125)
      ELSE IF MeanLuminanceAbove(78) THEN Look("0x242734", 92, 95, 145)
      ELSE IF MeanMetalnessAbove(45) THEN Look("0xdfe5ec", 115, 118, 155)
      ELSE Look("0xe8e8e8", 100, 110, 110)

\* C19 witness: for a model with one dark, fully metallic standard material
\* and one material that is not standard, the look applied is the preset
\* with the light background, not the metal preset.
C19_Witness ==
  /\ LookApplied
  /\ modelMaterials = << Material(TRUE, 10, 10, 10, 100), Material(FALSE, 100, 100, 0, 0) >>
  /\ sceneLook = Look("0xf0f0ed", 112, 120, 125)

\* The pointerdown event of pointer id with the primary button at (x, y).
PrimaryDown(id, x, y) == [pointerId |-> id, button |-> 0, clientX |-> x, clientY |-> y]

\* A pointer is captured: panelPointerId is not null.
Captured == panelPointerId # 0

\* C21: a pointerdown with the primary button on the panel head captures
\* the event's pointer id, and a capture comes from nothing else; a
\* pointermove changes the panel position only while a pointer is captured
\* and only when it comes from that pointer; a pointerup or pointercancel
\* releases the capture only when it comes from the captured pointer, and
\* events of other pointers leave the panel as it is; once released, no
\* listener is left on window.
C21_DragCaptureProtocol ==
  /\ [](Captured <=> dragListeners)
  /\ [](Captured <=> isPanelDragging)
  /\ [][ \A id \in (1..MaxPointers) \ {panelPointerId'} : \A x \in ClientXs, y \in ClientYs :
           OnPanelHead(PrimaryDown(id, x, y)) => ~OnPanelPointerDown(PrimaryDown(id, x, y)) ]_vars
  /\ [][ (Captured' /\ panelPointerId' # panelPointerId) =>
           \E event \in PointerEvents :
             /\ event.button = 0
             /\ event.pointerId = panelPointerId'
             /\ OnPanelPointerDown(event)
             /\ panelPointerOffsetX' = event.clientX - PanelRect.left
             /\ panelPointerOffsetY' = event.clientY - PanelRect.top ]_vars
  /\ [][ (Captured /\ ~Captured') =>
           \E event \in PointerEvents :
             event.pointerId = panelPointerId /\ OnPanelPointerUp(event) ]_vars
  /\ [][ panelPosition' # panelPosition =>
           \/ TogglePanelCollapsed
           \/ \E host \in HostSizes : UpdateRendererSize(host)
           \/ /\ Captured
              /\ \E event \in PointerEvents :
                   event.pointerId = panelPointerId /\ OnPanelPointerMove(event) ]_vars
  /\ [][ \/ UNCHANGED panelVars
         \/ ~\E event \in PointerEvents :
               /\ event.pointerId # panelPointerId
               /\ OnPanelPointerMove(event) \/ OnPanelPointerUp(event) ]_vars

\* C21 witness: the panel was captured on its head at its initial place,
\* dragged to (8, 392) and released: nothing is captured, no listener is
\* left, and the panel is where the drag left it.
C21_Witness ==
  /\ ~Captured
  /\ ~dragListeners
  /\ ~isPanelDragging
  /\ hostSize = Size(800, 600)
  /\ ~isPanelCollapsed
  /\ panelPosition = Point(8, 392)
  /\ panelPointerOffsetX = 50
  /\ panelPointerOffsetY = 10

(***************************************************************************)
(* Properties of overlapping loads (Spec).                                 *)
(***************************************************************************)
\* The file findAssetFileByUrl returns for a request when the index is the
\* one built from the file set of the request's own load cycle; NoFile when
\* resolveAssetUrl returns before the lookup.
FileInOwnIndex(request) ==
  IF DOMAIN IndexOf[loads[request.cycle].files].map = {} \/ IsDataUrl(request.requested)
    THEN NoFile
  ELSE Probe(RequestKeys[request.requested], IndexOf[loads[request.cycle].files].map)

\* C22: every sub-resource request of a load cycle was resolved against the
\* index built from that cycle's own file set: it got a blob URL of the
\* file that index gives for the requested URL, and the requested URL
\* itself when that index gives none.
C22_ResolvedAgainstOwnIndex ==
  \A request \in inflight :
    IF FileInOwnIndex(request) = NoFile
      THEN request.ret = Unchanged(request.requested)
    ELSE /\ request.ret.handle # 0
         /\ objectUrls[request.ret.handle].file = FileInOwnIndex(request)

\* C23: while the viewer is mounted, isLoading is true in every state in
\* which some load attempt has started and neither of its callbacks has
\* fired.
C23_LoadingWhileAnyLoadInFlight ==
  (scene /\ Loading(loads) # {}) => isLoading

\* The load that was started last.
LastStarted == Len(loads)

\* Both of two overlapping loads have succeeded, their success callbacks
\* having run while the viewer was mounted.
BothSucceeded ==
  /\ Len(loads) = 2
  /\ \A c \in 1..2 : loads[c].st = "done" /\ ~loads[c].stale
  /\ scene

\* C24: once two overlapping loads have both succeeded, the active model,
\* the extension lists and the status text are those of the load that was
\* started last, in whichever order the two success callbacks fired.
C24_LastStartedLoadWins ==
  BothSucceeded =>
    /\ activeModel = LastStarted
    /\ requiredExtensions = extractExtensionInfo(GltfOf(loads[LastStarted].files)).required
    /\ usedExtensions = extractExtensionInfo(GltfOf(loads[LastStarted].files)).used
    /\ statusText = LoadedStatus(FileSets[loads[LastStarted].files][MainOf[loads[LastStarted].files]].name,
                                 Len(FileSets[loads[LastStarted].files]))

\* The file sets loadModelFromFileSet starts a load for: they hold a model
\* file and their index can be built.
ValidFileSets == { k \in 1..Len(FileSets) : MainOf[k] # 0 /\ ~IndexOf[k].threw }

\* The error callback of some load fires in this step.
SomeLoadFails == \E c \in Loading(loads) : loads'[c].st = "failed"

\* C25: the error callback of a load leaves the active model, the scene's
\* content, hasModel and the two extension lists as they were; while the
\* viewer is mounted, loadModelFromFileSet with a valid file set starts a
\* load after a failure as it would before one; and the success callback of
\* a load that was started after a failure installs that load's model.
C25_FailureEndsOnlyItsOwnAttempt ==
  /\ [][ SomeLoadFails =>
           UNCHANGED << activeModel, sceneChildren, disposed, hasModel,
                        requiredExtensions, usedExtensions >> ]_vars
  /\ [][ \A c \in Loading(loads) :
           (loads[c].afterFailure /\ loads'[c].st = "done" /\ scene) =>
             /\ activeModel' = c /\ c \in sceneChildren' /\ hasModel'
             /\ ~isLoading'
             /\ requiredExtensions' = extractExtensionInfo(GltfOf(loads[c].files)).required
             /\ statusText' = LoadedStatus(FileSets[loads[c].files][MainOf[loads[c].files]].name,
                                           Len(FileSets[loads[c].files])) ]_vars
  /\ []( ( /\ scene /\ gltfLoader /\ Len(loads) < MaxLoads
           /\ \E b \in 1..Len(loads) : loads[b].st = "failed" ) =>
         \A k \in ValidFileSets : ENABLED LoadModelFromFileSet(k) )

\* Load 1 failed, load 2 was started after that failure with a valid file
\* set and has succeeded: its model is displayed.
C25_Witness ==
  /\ Len(loads) = 2
  /\ loads[1].st = "failed"
  /\ loads[2].afterFailure /\ loads[2].st = "done" /\ ~loads[2].stale
  /\ activeModel = 2 /\ hasModel /\ ~isLoading

\* C26: between event handlers, hasModel is true exactly when there is an
\* active model and it is in the scene, nothing but the active model is in
\* the scene, and both extension lists are empty when there is no active
\* model, also after teardown.
C26_HasModelMatchesActiveModel ==
  /\ hasModel <=> (activeModel # 0 /\ activeModel \in sceneChildren)
  /\ activeModel # 0 => activeModel \in sceneChildren
  /\ sceneChildren \subseteq {activeModel}
  /\ activeModel = 0 => (requiredExtensions = << >> /\ usedExtensions = << >>)

\* The model of {a.gltf, d/a.bin}, which declares extensions, was displayed
\* and the viewer was then torn down.
C26_Witness ==
  /\ ~scene
  /\ \E c \in 1..Len(loads) :
       /\ loads[c].st = "done" /\ ~loads[c].stale
       /\ extractExtensionInfo(GltfOf(loads[c].files)).required # << >>
       /\ << c, 1 >> \in disposed
  /\ activeModel = 0 /\ ~hasModel /\ sceneChildren = {}
  /\ requiredExtensions = << >> /\ usedExtensions = << >>

=============================================================================
